---- MODULE Spec2Model ----
(***************************************************************************)
(* Model of snapshot-delete-script.py: lambda_handler lists the account's  *)
(* snapshots, checks the volume of each, collects the snapshots whose      *)
(* volume is not found and deletes them.                                   *)
(*                                                                         *)
(* The EC2 service is the environment.  Two invocations of the handler     *)
(* ("A" and "B") run against the same account; they may overlap or run one *)
(* after the other.  One step of an invocation is one call of the service  *)
(* together with the handler's code up to its next call.                   *)
(*                                                                         *)
(* The source does not fix two things the service decides: the spelling of *)
(* the error code of a missing volume and the keys of a snapshot record.   *)
(* Both are drawn in Init: the values the EC2 API documents                *)
(* ("InvalidVolume.NotFound", keys SnapshotId and VolumeId) and the values *)
(* the source's own literals name ("InvalidVolume.Notfound", an            *)
(* additional key snapshotid).                                             *)
(***************************************************************************)
EXTENDS Integers, Sequences, FiniteSets, TLC

VARIABLES
    snapshots,      \* service: identifiers of the snapshots that exist
    volumes,        \* service: identifiers of the volumes that exist
    notFoundCode,   \* service: error code of a check of a missing volume
    recordKeys,     \* service: keys of a record of the snapshot listing
    pc,             \* invocation -> "idle", "check", "delete", "returned", "raised"
    response,       \* invocation -> response["Snapshots"], a sequence of records
    snapshot_id,    \* invocation -> the list snapshot_id (the orphan set)
    result,         \* invocation -> {} or {the value returned}
    exc,            \* invocation -> {} or {the exception that left the handler}
    listCalls,      \* invocation -> outcomes of its describe_snapshots calls
    checkCalls,     \* invocation -> outcomes of its describe_volume_status calls
    deleteCalls,    \* invocation -> outcomes of its delete_snapshot calls
    logs,           \* invocation -> snapshot identifiers of its logger.info records
    endedBefore     \* invocation -> the invocations that had ended when it began

vars == <<snapshots, volumes, notFoundCode, recordKeys, pc, response, snapshot_id,
          result, exc, listCalls, checkCalls, deleteCalls, logs, endedBefore>>

\* ------------------------------------------------------------------ bounds

\* Snapshot identifiers of the account are 1..MaxSnapshots.
MaxSnapshots == 3

\* Volume identifiers are 1..MaxVolumes.
MaxVolumes == 2

SnapIds == 1..MaxSnapshots

VolIds == 1..MaxVolumes

\* The two invocations of lambda_handler.
Runs == {"A", "B"}

\* The volume a snapshot was taken of (snapshots 1 and 3 share a volume).
VolumeOf(s) == ((s - 1) % MaxVolumes) + 1

\* ------------------------------------------------------- the EC2 service

\* Error code of a throttled or otherwise failed request.
OtherCode == "RequestLimitExceeded"

\* Error code of delete_snapshot on a snapshot that does not exist.
SnapshotGoneCode == "InvalidSnapshot.NotFound"

\* The spellings of the missing-volume code: the EC2 API's and the source's.
NotFoundCodes == {"InvalidVolume.NotFound", "InvalidVolume.Notfound"}

\* The key sets of a listed snapshot record: the EC2 API's, and one that also
\* has the key the source reads.
RecordKeySets == {{"SnapshotId", "VolumeId"}, {"SnapshotId", "VolumeId", "snapshotid"}}

\* Attributes of the client object boto3.client("ec2") that the source refers to
\* and the client has.
ClientAttrs == {"describe_snapshots", "describe_volume_status", "delete_snapshot",
                "exceptions"}

\* One record of response["Snapshots"].
SnapshotRecord(s, keys) ==
    [k \in keys |-> IF k = "VolumeId" THEN VolumeOf(s) ELSE s]

\* The identifiers of a set in ascending order.
RECURSIVE Ascending(_)
Ascending(S) ==
    IF S = {} THEN <<>>
    ELSE LET m == CHOOSE x \in S : \A y \in S : x <= y
         IN <<m>> \o Ascending(S \ {m})

\* describe_snapshots(OwnerIds=["self"]): the records of the existing snapshots.
DescribeSnapshots(snaps, keys) ==
    LET ids == Ascending(snaps)
    IN [i \in 1..Len(ids) |-> SnapshotRecord(ids[i], keys)]

\* describe_volume_status(VolumeIds=[v]): the outcomes the service can give.
DescribeVolumeStatus(v, vols, nfCode) ==
    { IF v \in vols THEN [kind |-> "ok", code |-> "", volume |-> v]
                    ELSE [kind |-> "notfound", code |-> nfCode, volume |-> v],
      [kind |-> "other", code |-> OtherCode, volume |-> v] }

\* delete_snapshot(SnapshotId=s): the outcomes the service can give.
DeleteSnapshot(s, snaps) ==
    { IF s \in snaps THEN [kind |-> "ok", code |-> "", snapshot |-> s]
                     ELSE [kind |-> "gone", code |-> SnapshotGoneCode, snapshot |-> s],
      [kind |-> "other", code |-> OtherCode, snapshot |-> s] }

\* ------------------------------------------------------- lambda_handler

\* The literal the handler compares the error code with.
HandlerNotFoundLiteral == "InvalidVolume.Notfound"

\* The key the handler reads the identifier of an orphan from.
HandlerIdKey == "snapshotid"

\* return {"statusCode": 200}
SuccessResult == [statusCode |-> 200]

\* The return value of the except branch of the delete loop.
FailureResult(each_snap, e) ==
    [statusCode |-> 500, body |-> <<"Error deleting snapshot", each_snap, e>>]

\* CheckStep with every error but "not found" swallowed (except ...: pass).
CheckStepSwallow(ids, each_snapshot, res) ==
    IF res.kind = "ok"
    THEN [ctl |-> "next", ids |-> ids, exc |-> ""]
    ELSE IF res.code = HandlerNotFoundLiteral
         THEN IF HandlerIdKey \in DOMAIN each_snapshot
              THEN [ctl |-> "next", ids |-> Append(ids, each_snapshot[HandlerIdKey]),
                    exc |-> ""]
              ELSE [ctl |-> "raise", ids |-> ids, exc |-> "KeyError"]
         ELSE [ctl |-> "next", ids |-> ids, exc |-> ""]

\* CheckStep with the append also made when the check succeeds (an append placed
\* after the try statement instead of in its handler).
CheckStepCollectOk(ids, each_snapshot, res) ==
    IF res.kind = "ok"
    THEN [ctl |-> "next", ids |-> Append(ids, each_snapshot["SnapshotId"]), exc |-> ""]
    ELSE IF res.code = HandlerNotFoundLiteral
         THEN IF HandlerIdKey \in DOMAIN each_snapshot
              THEN [ctl |-> "next", ids |-> Append(ids, each_snapshot[HandlerIdKey]),
                    exc |-> ""]
              ELSE [ctl |-> "raise", ids |-> ids, exc |-> "KeyError"]
         ELSE [ctl |-> "raise", ids |-> ids, exc |-> res.code]

\* One iteration of the check loop, given the outcome res of the volume check:
\* the control flow that follows and the new snapshot_id.
CheckStep(ids, each_snapshot, res) ==
    IF res.kind = "ok"
    THEN [ctl |-> "next", ids |-> ids, exc |-> ""]
    ELSE IF res.code = HandlerNotFoundLiteral
         THEN IF HandlerIdKey \in DOMAIN each_snapshot
              THEN [ctl |-> "next", ids |-> Append(ids, each_snapshot[HandlerIdKey]),
                    exc |-> ""]
              ELSE [ctl |-> "raise", ids |-> ids, exc |-> "KeyError"]
         ELSE [ctl |-> "raise", ids |-> ids, exc |-> res.code]

\* AfterChecks with the test inverted (if not snapshot_id).
AfterChecksInverted(ids) == IF ids = <<>> THEN "delete" ELSE "return"

\* After the check loop: the if of the delete loop.
AfterChecks(ids) == IF ids # <<>> THEN "delete" ELSE "return"

\* EachSnap iterating over reversed(snapshot_id).
EachSnapReversed(ids, k) == ids[Len(ids) - k + 1]

\* The snapshot the k-th iteration of the delete loop deletes.
EachSnap(ids, k) == ids[k]

\* DeleteHandler that logs the failure and goes on with the next orphan
\* (except Exception: continue).
DeleteHandlerContinue(each_snap, e) ==
    [ctl |-> "next", result |-> {}, exc |-> {}]

\* The except clause of the delete loop, given the error code e of the failed
\* call: evaluating ec2_cli.exception raises AttributeError when the client has
\* no such attribute.
DeleteHandler(each_snap, e) ==
    IF "exception" \in ClientAttrs
    THEN [ctl |-> "return", result |-> {FailureResult(each_snap, e)}, exc |-> {}]
    ELSE [ctl |-> "raise", result |-> {}, exc |-> {"AttributeError"}]

Ended(r) == pc[r] \in {"returned", "raised"}

Init ==
    /\ snapshots \in SUBSET SnapIds
    /\ volumes \in SUBSET VolIds
    /\ notFoundCode \in NotFoundCodes
    /\ recordKeys \in RecordKeySets
    /\ pc = [r \in Runs |-> "idle"]
    /\ response = [r \in Runs |-> <<>>]
    /\ snapshot_id = [r \in Runs |-> <<>>]
    /\ result = [r \in Runs |-> {}]
    /\ exc = [r \in Runs |-> {}]
    /\ listCalls = [r \in Runs |-> <<>>]
    /\ checkCalls = [r \in Runs |-> <<>>]
    /\ deleteCalls = [r \in Runs |-> <<>>]
    /\ logs = [r \in Runs |-> <<>>]
    /\ endedBefore = [r \in Runs |-> {}]

\* Lines 8-10, and lines 22 and 32 when the listing is empty.
Start(r) ==
    /\ pc[r] = "idle"
    /\ endedBefore' = [endedBefore EXCEPT ![r] = {q \in Runs : Ended(q)}]
    /\ \E ok \in BOOLEAN :
        IF ok
        THEN LET listing == DescribeSnapshots(snapshots, recordKeys)
                 done == listing = <<>> /\ AfterChecks(<<>>) = "return"
             IN /\ listCalls' = [listCalls EXCEPT ![r] = Append(@, "ok")]
                /\ response' = [response EXCEPT ![r] = listing]
                /\ pc' = [pc EXCEPT ![r] =
                            IF listing # <<>> THEN "check"
                            ELSE IF done THEN "returned" ELSE "delete"]
                /\ result' = [result EXCEPT ![r] = IF done THEN {SuccessResult} ELSE {}]
                /\ exc' = exc
        ELSE /\ listCalls' = [listCalls EXCEPT ![r] = Append(@, OtherCode)]
             /\ pc' = [pc EXCEPT ![r] = "raised"]
             /\ exc' = [exc EXCEPT ![r] = {OtherCode}]
             /\ UNCHANGED <<response, result>>
    /\ UNCHANGED <<snapshots, volumes, notFoundCode, recordKeys, snapshot_id,
                   checkCalls, deleteCalls, logs>>

\* Lines 11-20: one iteration of the check loop; after the last one, line 22
\* and, with nothing to delete, line 32.
Check(r) ==
    /\ pc[r] = "check"
    /\ LET i == Len(checkCalls[r]) + 1
           each_snapshot == response[r][i]
       IN \E res \in DescribeVolumeStatus(each_snapshot["VolumeId"], volumes, notFoundCode) :
            LET step == CheckStep(snapshot_id[r], each_snapshot, res)
                last == i = Len(response[r])
                after == AfterChecks(step.ids)
            IN /\ checkCalls' = [checkCalls EXCEPT ![r] = Append(@, res)]
               /\ snapshot_id' = [snapshot_id EXCEPT ![r] = step.ids]
               /\ IF step.ctl = "raise"
                  THEN /\ pc' = [pc EXCEPT ![r] = "raised"]
                       /\ exc' = [exc EXCEPT ![r] = {step.exc}]
                       /\ result' = result
                  ELSE /\ pc' = [pc EXCEPT ![r] =
                                   IF ~last THEN "check"
                                   ELSE IF after = "delete" THEN "delete" ELSE "returned"]
                       /\ result' = [result EXCEPT ![r] =
                                       IF last /\ after = "return" THEN {SuccessResult}
                                       ELSE {}]
                       /\ exc' = exc
    /\ UNCHANGED <<snapshots, volumes, notFoundCode, recordKeys, response, listCalls,
                   deleteCalls, logs, endedBefore>>

\* Lines 23-31: one iteration of the delete loop; after the last one, line 32.
\* The except clause of the source leaves the handler (ctl "return" or "raise");
\* any other ctl goes on with the loop.
Delete(r) ==
    /\ pc[r] = "delete"
    /\ Len(deleteCalls[r]) < Len(snapshot_id[r])
    /\ LET k == Len(deleteCalls[r]) + 1
           each_snap == EachSnap(snapshot_id[r], k)
       IN \E res \in DeleteSnapshot(each_snap, snapshots) :
            /\ deleteCalls' = [deleteCalls EXCEPT ![r] = Append(@, res)]
            /\ IF res.kind = "ok"
               THEN /\ snapshots' = snapshots \ {each_snap}
                    /\ logs' = [logs EXCEPT ![r] = Append(@, each_snap)]
                    /\ pc' = [pc EXCEPT ![r] =
                                IF k = Len(snapshot_id[r]) THEN "returned" ELSE "delete"]
                    /\ result' = [result EXCEPT ![r] =
                                    IF k = Len(snapshot_id[r]) THEN {SuccessResult} ELSE {}]
                    /\ exc' = exc
               ELSE LET h == DeleteHandler(each_snap, res.code)
                    IN /\ pc' = [pc EXCEPT ![r] =
                                   IF h.ctl = "return" THEN "returned"
                                   ELSE IF h.ctl = "raise" THEN "raised"
                                   ELSE IF k = Len(snapshot_id[r]) THEN "returned"
                                   ELSE "delete"]
                       /\ result' = [result EXCEPT ![r] =
                                       IF h.ctl \in {"return", "raise"} THEN h.result
                                       ELSE IF k = Len(snapshot_id[r]) THEN {SuccessResult}
                                       ELSE {}]
                       /\ exc' = [exc EXCEPT ![r] = h.exc]
                       /\ UNCHANGED <<snapshots, logs>>
    /\ UNCHANGED <<volumes, notFoundCode, recordKeys, response, snapshot_id, listCalls,
                   checkCalls, endedBefore>>

Next == \E r \in Runs : Start(r) \/ Check(r) \/ Delete(r)

Spec == Init /\ [][Next]_vars

\* ------------------------------------------------------------------ claims

\* The identifier of the k-th snapshot of the listing of invocation r.
ListedId(r, k) == response[r][k]["SnapshotId"]

\* How many times x occurs in the sequence s.
Count(s, x) == Cardinality({i \in 1..Len(s) : s[i] = x})

Range(s) == {s[i] : i \in 1..Len(s)}

\* The check loop of r is over: it ran to its end or an exception left it.
LoopLeft(r) == pc[r] \in {"delete", "returned", "raised"}

\* The check loop of r ran to its end and the code after it was reached.
LoopCompleted(r) ==
    /\ listCalls[r] = <<"ok">>
    /\ Len(checkCalls[r]) = Len(response[r])
    /\ \/ pc[r] \in {"delete", "returned"}
       \/ pc[r] = "raised" /\ deleteCalls[r] # <<>>

\* The snapshots whose delete_snapshot call by r succeeded.
DeletedBy(r) ==
    {deleteCalls[r][k].snapshot : k \in {j \in 1..Len(deleteCalls[r]) :
                                            deleteCalls[r][j].kind = "ok"}}

\* No call of r failed for a reason other than a missing volume.
NoOtherFailure(r) ==
    /\ \A k \in 1..Len(listCalls[r]) : listCalls[r][k] = "ok"
    /\ \A k \in 1..Len(checkCalls[r]) : checkCalls[r][k].kind \in {"ok", "notfound"}
    /\ \A k \in 1..Len(deleteCalls[r]) : deleteCalls[r][k].kind = "ok"

\* C1: once the check loop of an invocation is over, the identifier of a listed
\* snapshot is in snapshot_id exactly once if its volume check returned "not
\* found", and not at all if its check succeeded; snapshot_id holds nothing else.
C1_OrphanIffNotFound ==
    \A r \in Runs :
        LoopLeft(r) =>
            /\ \A k \in 1..Len(checkCalls[r]) :
                 /\ checkCalls[r][k].kind = "notfound"
                       => Count(snapshot_id[r], ListedId(r, k)) = 1
                 /\ checkCalls[r][k].kind = "ok"
                       => Count(snapshot_id[r], ListedId(r, k)) = 0
            /\ \A s \in Range(snapshot_id[r]) :
                 \E k \in 1..Len(checkCalls[r]) :
                    ListedId(r, k) = s /\ checkCalls[r][k].kind = "notfound"

\* C2: a volume check that fails for another reason than "not found" aborts the
\* invocation with that error: no delete_snapshot call is made, nothing is
\* returned, whatever was collected before.
C2_OtherCheckFailureAborts ==
    \A r \in Runs :
        \A k \in 1..Len(checkCalls[r]) :
            checkCalls[r][k].kind = "other" =>
                /\ deleteCalls[r] = <<>>
                /\ pc[r] = "raised"
                /\ exc[r] = {checkCalls[r][k].code}
                /\ result[r] = {}

\* An invocation that had collected an orphan when a later check failed.
C2_Witness ==
    \E r \in Runs :
        /\ snapshot_id[r] # <<>>
        /\ \E k \in 1..Len(checkCalls[r]) : checkCalls[r][k].kind = "other"
        /\ pc[r] = "raised"

\* C3: a failed deletion ends the invocation with statusCode 500 and a body
\* naming the snapshot and the error, and no later orphan is passed to
\* delete_snapshot.
C3_DeleteFailureReturns500 ==
    \A r \in Runs :
        \A k \in 1..Len(deleteCalls[r]) :
            deleteCalls[r][k].kind # "ok" =>
                /\ pc[r] = "returned"
                /\ result[r] = {FailureResult(deleteCalls[r][k].snapshot,
                                              deleteCalls[r][k].code)}
                /\ k = Len(deleteCalls[r])

\* C4: an invocation whose volume checks all succeed or return "not found" and
\* whose deletions all succeed returns statusCode 200, has deleted every snapshot
\* of snapshot_id, and has logged each deleted identifier once, in order.
C4_AllSucceedReturns200 ==
    \A r \in Runs :
        ( /\ pc[r] \in {"returned", "raised"}
          /\ NoOtherFailure(r) )
        => /\ pc[r] = "returned"
           /\ result[r] = {SuccessResult}
           /\ Range(snapshot_id[r]) = DeletedBy(r)
           /\ Len(logs[r]) = Len(deleteCalls[r])
           /\ \A k \in 1..Len(logs[r]) : logs[r][k] = deleteCalls[r][k].snapshot

\* C5: when the check loop ends with snapshot_id empty, the invocation returns
\* statusCode 200, calls delete_snapshot never and logs nothing.
C5_NoOrphanReturns200 ==
    \A r \in Runs :
        (LoopCompleted(r) /\ snapshot_id[r] = <<>>) =>
            /\ pc[r] = "returned"
            /\ result[r] = {SuccessResult}
            /\ deleteCalls[r] = <<>>
            /\ logs[r] = <<>>

\* An invocation that listed snapshots, found the volume of each and returned.
C5_Witness ==
    \E r \in Runs :
        /\ LoopCompleted(r)
        /\ snapshot_id[r] = <<>>
        /\ Len(response[r]) > 1
        /\ pc[r] = "returned"

\* C6: of two invocations run one after the other, with no failure other than
\* "not found" in either, the second returns statusCode 200; its snapshot_id is
\* part of the first one's and holds no snapshot the first one deleted.
C6_SecondRunSucceeds ==
    \A q \in Runs : \A r \in Runs :
        ( /\ q \in endedBefore[r]
          /\ pc[r] \in {"returned", "raised"}
          /\ NoOtherFailure(q)
          /\ NoOtherFailure(r) )
        => /\ pc[r] = "returned"
           /\ result[r] = {SuccessResult}
           /\ Range(snapshot_id[r]) \subseteq Range(snapshot_id[q])
           /\ Range(snapshot_id[r]) \cap DeletedBy(q) = {}

\* C7: a delete_snapshot call on a snapshot another invocation already deleted
\* fails that one deletion, and the invocation returns statusCode 500 naming the
\* snapshot; no snapshot is deleted twice and none whose volume exists is deleted.
C7_RaceReportedStateIntact ==
    /\ \A r \in Runs :
         \A k \in 1..Len(deleteCalls[r]) :
            deleteCalls[r][k].kind = "gone" =>
                /\ k = Len(deleteCalls[r])
                /\ pc[r] = "returned"
                /\ result[r] = {FailureResult(deleteCalls[r][k].snapshot,
                                              SnapshotGoneCode)}
    /\ \A q \in Runs : \A r \in Runs :
         q # r => DeletedBy(q) \cap DeletedBy(r) = {}
    /\ \A r \in Runs :
         \A k \in 1..Len(deleteCalls[r]) :
            deleteCalls[r][k].kind = "ok"
               => /\ Cardinality({j \in 1..Len(deleteCalls[r]) :
                                    /\ deleteCalls[r][j].kind = "ok"
                                    /\ deleteCalls[r][j].snapshot
                                          = deleteCalls[r][k].snapshot}) = 1
                  /\ VolumeOf(deleteCalls[r][k].snapshot) \notin volumes

\* The place of snapshot s in the listing of invocation r.
ListedAt(r, s) == CHOOSE i \in 1..Len(response[r]) : ListedId(r, i) = s

\* C8: the delete_snapshot calls of an invocation follow the order of the
\* listing, which is the order the orphans were found in, and the first of them
\* comes after the volume check of every listed snapshot.
C8_DeleteInListingOrder ==
    \A r \in Runs :
        /\ deleteCalls[r] # <<>> => Len(checkCalls[r]) = Len(response[r])
        /\ \A k \in 1..Len(deleteCalls[r]) :
             /\ deleteCalls[r][k].snapshot = snapshot_id[r][k]
             /\ \E i \in 1..Len(response[r]) : ListedId(r, i) = deleteCalls[r][k].snapshot
        /\ \A j \in 1..Len(deleteCalls[r]) : \A k \in 1..Len(deleteCalls[r]) :
             j < k => ListedAt(r, deleteCalls[r][j].snapshot)
                        < ListedAt(r, deleteCalls[r][k].snapshot)

\* An invocation that has made two delete_snapshot calls.
C8_Witness ==
    \E r \in Runs : Len(deleteCalls[r]) >= 2

\* C9: a step changes the service's state only by deleting a snapshot of the
\* stepping invocation's snapshot_id; a snapshot whose volume check succeeded in
\* an invocation is never passed to delete_snapshot by it; the volumes stay.
C9_OnlyOrphansDeleted ==
    [][ /\ volumes' = volumes
        /\ snapshots' \subseteq snapshots
        /\ \A s \in snapshots \ snapshots' :
             \E r \in Runs :
                /\ s \in Range(snapshot_id[r])
                /\ Len(deleteCalls'[r]) = Len(deleteCalls[r]) + 1
        /\ \A r \in Runs :
             Len(deleteCalls'[r]) > Len(deleteCalls[r]) =>
                LET s == deleteCalls'[r][Len(deleteCalls'[r])].snapshot
                IN /\ s \in Range(snapshot_id[r])
                   /\ \A k \in 1..Len(checkCalls[r]) :
                        ListedId(r, k) = s => checkCalls[r][k].kind # "ok"
      ]_vars

\* An invocation that found the volume of one snapshot and deleted another.
C9_Witness ==
    \E r \in Runs :
        /\ \E k \in 1..Len(checkCalls[r]) : checkCalls[r][k].kind = "ok"
        /\ DeletedBy(r) # {}

\* C10: no call is repeated: an invocation lists once, checks each listed snapshot
\* at most once, passes no identifier to delete_snapshot twice, and makes no call
\* after one that failed for another reason than a missing volume.
C10_NoRetries ==
    \A r \in Runs :
        /\ Len(listCalls[r]) <= 1
        /\ Len(checkCalls[r]) <= Len(response[r])
        /\ \A k \in 1..Len(checkCalls[r]) :
             checkCalls[r][k].volume = response[r][k]["VolumeId"]
        /\ \A j \in 1..Len(deleteCalls[r]) : \A k \in 1..Len(deleteCalls[r]) :
             j # k => deleteCalls[r][j].snapshot # deleteCalls[r][k].snapshot
        /\ (\E k \in 1..Len(listCalls[r]) : listCalls[r][k] # "ok")
             => checkCalls[r] = <<>> /\ deleteCalls[r] = <<>>
        /\ \A k \in 1..Len(checkCalls[r]) :
             checkCalls[r][k].kind = "other"
                => k = Len(checkCalls[r]) /\ deleteCalls[r] = <<>>
        /\ \A k \in 1..Len(deleteCalls[r]) :
             deleteCalls[r][k].kind # "ok" => k = Len(deleteCalls[r])

\* An invocation that ended on a failed volume check with snapshots left to check.
C10_Witness ==
    \E r \in Runs :
        /\ pc[r] = "raised"
        /\ checkCalls[r] # <<>>
        /\ checkCalls[r][Len(checkCalls[r])].kind = "other"
        /\ Len(checkCalls[r]) < Len(response[r])

====
